---- MODULE Spec2Model ----
(***************************************************************************)
(* Model of the agentic RAG chat application.                              *)
(*                                                                         *)
(*   src/app.py       the Streamlit application (current variant)          *)
(*   src/app_orig.py  the Streamlit application (original variant)         *)
(*   src/src/tools/custom_tool.py   DocumentSearchTool,                    *)
(*                                  FireCrawlWebSearchTool                 *)
(*                                                                         *)
(* A Streamlit session is one script that is re-run from top to bottom on  *)
(* every widget event.  A run is: the button callback (reset_chat) if the  *)
(* event was the button, then the sidebar (handle_pdf_upload when a file   *)
(* is selected in the uploader), then the chat turn when a prompt was      *)
(* submitted.  pc is the position of the running script; "idle" means the  *)
(* script has finished and the session waits for the next event.           *)
(***************************************************************************)
EXTENDS Integers, Sequences, FiniteSets, TLC

VARIABLES
    app,            \* which variant runs: "app" (app.py) or "app_orig" (app_orig.py)
    session_state,  \* st.session_state: messages, pdf_tool, crew, pdf_processed, current_pdf
    uploaded_file,  \* value of the st.file_uploader widget
    prompt,         \* value of st.chat_input in the current run
    pc,             \* position of the script run
    last,           \* the operation that made the last step
    attempt,        \* loop variable of the retry loop around crew.kickoff
    waits,          \* the time.sleep calls of the current turn: <<kind, seconds>>
    exc,            \* exception being handled by the turn's except clauses
    retrieved,      \* what retrieval produced in the last kickoff of the turn
    escaped,        \* TRUE when an exception left the last script run uncaught
    build_log,      \* the index builds made since the file was selected: first outcome, count
    web_pc,         \* FireCrawlWebSearchTool._run: position
    web_attempt,    \* FireCrawlWebSearchTool._run: loop variable attempt
    web_sleeps,     \* FireCrawlWebSearchTool._run: the time.sleep calls made
    web_trace,      \* FireCrawlWebSearchTool._run: outcome of every HTTP attempt made
    web_ret,        \* FireCrawlWebSearchTool._run: what the call returned or raised
    ctx_result,     \* context construction: what pdf_tool.search gave
    ctx_out,        \* context construction: context_str, by lengths
    doc_store,      \* DocumentSearchTool: the points held by the client of each instance
    doc_query,      \* DocumentSearchTool: the last query and what it gave
    cfg_file,       \* appconfig: whether the .env file exists
    cfg_env,        \* appconfig: the environment after load_dotenv
    cfg_out         \* appconfig: what importing the module gave

session_vars == <<app, session_state, uploaded_file, prompt, pc, last, attempt,
                  waits, exc, retrieved, escaped, build_log>>
web_vars == <<web_pc, web_attempt, web_sleeps, web_trace, web_ret>>
ctx_vars == <<ctx_result, ctx_out>>
\* the variables of the components that are modelled on their own
doc_vars == <<doc_store, doc_query>>
cfg_vars == <<cfg_file, cfg_env, cfg_out>>
tool_vars == <<ctx_vars, doc_vars, cfg_vars>>
vars == <<app, session_state, uploaded_file, prompt, pc, last, attempt,
          waits, exc, retrieved, escaped, build_log,
          web_pc, web_attempt, web_sleeps, web_trace, web_ret,
          ctx_result, ctx_out, doc_store, doc_query, cfg_file, cfg_env, cfg_out>>

-----------------------------------------------------------------------------
(* Bounds of the model *)

\* a session accepts a prompt while it holds fewer than 2 * MaxTurns messages
MaxTurns == 2
\* longest result list the web search service returns
MaxResults == 2
\* index builds recorded for one selection of the uploader
MaxBuilds == 2

-----------------------------------------------------------------------------
(* Values *)

Apps == {"app", "app_orig"}

\* Python None for a file, a tool, a file name, a prompt
NoFile == [name |-> "none", content |-> 0]
\* uploaded files: a name and the bytes (two files share the name a.pdf)
Files == { [name |-> "a.pdf", content |-> 1],
           [name |-> "a.pdf", content |-> 2],
           [name |-> "b.pdf", content |-> 1] }

\* a DocumentSearchTool is identified by the file its collection was built from
NoTool == NoFile
\* a Crew is identified by the pdf_tool it was created with
NoCrew == [built |-> FALSE, tool |-> NoTool]

NoPrompt == "none"
Prompts == {"q"}

NoExc == [cls |-> "none", marker |-> FALSE, index_msg |-> FALSE]
\* exceptions crew.kickoff can raise: the class, whether str(e) contains
\* "RateLimitError" or "rate_limit_exceeded", and whether str(e) contains
\* "'DocumentSearchTool' object has no attribute 'index'"
Exceptions == { [cls |-> "RateLimitError", marker |-> TRUE,  index_msg |-> FALSE],
                [cls |-> "AttributeError", marker |-> FALSE, index_msg |-> TRUE],
                [cls |-> "AttributeError", marker |-> FALSE, index_msg |-> FALSE],
                [cls |-> "Exception",      marker |-> FALSE, index_msg |-> FALSE],
                [cls |-> "Exception",      marker |-> TRUE,  index_msg |-> FALSE] }

\* the sentence both prompts ask the synthesizer to answer with
Fallback == "I'm sorry, I couldn't find the information you're looking for."
\* texts the LLM can return as the crew's raw output
Answers == {"answer", Fallback}

\* The three values FireCrawlWebSearchTool._run returns, by kind
WebResults == "results"
NoResults == "No results found."
WebError == "Error during FireCrawl web search"

\* what the retriever agent can obtain from the tools of the crew
Retrievals(crew) ==
    [ doc : IF crew.tool # NoTool THEN {"hit", "miss"} ELSE {"unbound"},
      web : {WebResults, NoResults, WebError} ]
NoRetrieval == [doc |-> "none", web |-> "none"]

Message(role, content) == [role |-> role, content |-> content]

-----------------------------------------------------------------------------
(* Session state *)

InitialSessionState ==
    [ messages      |-> <<>>,
      pdf_tool      |-> NoTool,
      crew          |-> NoCrew,
      pdf_processed |-> FALSE,
      current_pdf   |-> "none" ]

\* reset_chat without the line st.session_state.pdf_tool = None
reset_chat_keeps_tool(s) ==
    [s EXCEPT !.messages = <<>>,
              !.pdf_processed = FALSE,
              !.crew = NoCrew]

\* reset_chat without the line st.session_state.crew = None
reset_chat_keeps_crew(s) ==
    [s EXCEPT !.messages = <<>>,
              !.pdf_processed = FALSE,
              !.pdf_tool = NoTool]

reset_chat(s) ==
    [s EXCEPT !.messages = <<>>,
              !.pdf_processed = FALSE,
              !.pdf_tool = NoTool,
              !.crew = NoCrew]

\* DocumentSearchTool(file_path): the collection is built from the file written
DocumentSearchTool(f) == f

\* handle_pdf_upload of app.py without the early return of lines 205-210
handle_pdf_upload_app_always(s, f, ok) ==
    LET s1 == IF s.current_pdf # f.name THEN reset_chat(s) ELSE s
    IN  IF ok
        THEN [s1 EXCEPT !.pdf_tool = DocumentSearchTool(f),
                        !.pdf_processed = TRUE,
                        !.current_pdf = f.name,
                        !.crew = NoCrew]
        ELSE s1

\* handle_pdf_upload of app.py; ok: whether writing and indexing the file succeed
handle_pdf_upload_app(s, f, ok) ==
    IF s.current_pdf = f.name /\ s.pdf_processed /\ s.pdf_tool # NoTool
    THEN s
    ELSE LET s1 == IF s.current_pdf # f.name THEN reset_chat(s) ELSE s
         IN  IF ok
             THEN [s1 EXCEPT !.pdf_tool = DocumentSearchTool(f),
                             !.pdf_processed = TRUE,
                             !.current_pdf = f.name,
                             !.crew = NoCrew]
             ELSE s1

\* handle_pdf_upload of app_orig.py
handle_pdf_upload_orig(s, f, ok) ==
    IF ok THEN [s EXCEPT !.pdf_tool = DocumentSearchTool(f)] ELSE s

handle_pdf_upload(a, s, f, ok) ==
    IF a = "app" THEN handle_pdf_upload_app(s, f, ok)
                 ELSE handle_pdf_upload_orig(s, f, ok)

\* whether handle_pdf_upload runs the index build for this call
BuildsIndex(a, s, f) ==
    \/ a = "app_orig"
    \/ ~(s.current_pdf = f.name /\ s.pdf_processed /\ s.pdf_tool # NoTool)

\* create_agents_and_tasks(pdf_tool)
create_agents_and_tasks(tool) == [built |-> TRUE, tool |-> tool]

-----------------------------------------------------------------------------
\* no index build has been made for the selected file
NoBuilds == [first |-> "none", n |-> 0]

\* the session after the first lines of the script
SessionInit ==
    /\ app \in Apps
    /\ session_state = InitialSessionState
    /\ uploaded_file = NoFile
    /\ prompt = NoPrompt
    /\ pc = "idle"
    /\ last = "init"
    /\ attempt = 0
    /\ waits = <<>>
    /\ exc = NoExc
    /\ retrieved = NoRetrieval
    /\ escaped = FALSE
    /\ build_log = NoBuilds

\* FireCrawlWebSearchTool._run is entered
WebInit ==
    /\ web_pc = "start"
    /\ web_attempt = 0
    /\ web_sleeps = <<>>
    /\ web_trace = <<>>
    /\ web_ret = [kind |-> "none", lines |-> <<>>]

\* context_str = ""
NoContext == [done |-> FALSE, len |-> 0, parts |-> <<>>]

ContextIdle ==
    /\ ctx_result = [kind |-> "no_tool", chunks |-> <<>>]
    /\ ctx_out = NoContext

\* the DocumentSearchTool instances a process can hold
Tools == {1, 2}
NoPath == <<>>
NoTopK == 0
NoQuery == [op |-> "none", tool |-> 0, top_k |-> NoTopK, status |-> "none", chunks |-> {}]

\* no DocumentSearchTool has been constructed
DocIdle ==
    /\ doc_store = [t \in Tools |-> [file_path |-> NoPath, points |-> {}]]
    /\ doc_query = NoQuery

\* config.appconfig has not been imported
NotLoaded == [status |-> "not_loaded", named |-> <<>>, exports |-> <<>>]

ConfigIdle ==
    /\ cfg_file = TRUE
    /\ cfg_env = <<>>
    /\ cfg_out = NotLoaded

Init ==
    /\ SessionInit
    /\ WebInit
    /\ ContextIdle
    /\ DocIdle
    /\ ConfigIdle

(* Events: the user acts on a widget, which starts a run of the script *)

StartRun(p) ==
    /\ prompt' = p
    /\ pc' = "sidebar"
    /\ attempt' = 0
    /\ waits' = <<>>
    /\ exc' = NoExc
    /\ retrieved' = NoRetrieval
    /\ escaped' = FALSE

SelectFile ==
    /\ pc = "idle"
    /\ \E f \in Files :
         /\ f # uploaded_file
         /\ uploaded_file' = f
    /\ StartRun(NoPrompt)
    /\ build_log' = NoBuilds
    /\ last' = "select_file"
    /\ UNCHANGED <<app, session_state, web_vars, tool_vars>>

RemoveFile ==
    /\ pc = "idle"
    /\ uploaded_file # NoFile
    /\ uploaded_file' = NoFile
    /\ StartRun(NoPrompt)
    /\ build_log' = NoBuilds
    /\ last' = "remove_file"
    /\ UNCHANGED <<app, session_state, web_vars, tool_vars>>

\* the "Clear Chat History" button: on_click=reset_chat runs before the rerun
ClickReset ==
    /\ pc = "idle"
    /\ session_state' = reset_chat(session_state)
    /\ StartRun(NoPrompt)
    /\ last' = "reset_chat"
    /\ UNCHANGED <<app, uploaded_file, build_log,
                   web_vars, tool_vars>>

SubmitPrompt ==
    /\ pc = "idle"
    /\ Len(session_state.messages) < 2 * MaxTurns
    /\ \E p \in Prompts : StartRun(p)
    /\ last' = "submit"
    /\ UNCHANGED <<app, session_state, uploaded_file, build_log,
                   web_vars, tool_vars>>

\* the sidebar ending in an unconditional st.rerun(): the script starts over
AfterSidebar_rerun == "sidebar"

AfterSidebar == IF prompt # NoPrompt THEN "chat" ELSE "idle"

\* the log of index builds: the outcome of the first one, and how many were
\* made, counted up to MaxBuilds
Logged(log, outcome) ==
    IF log = NoBuilds THEN [first |-> outcome, n |-> 1]
    ELSE IF log.n < MaxBuilds THEN [log EXCEPT !.n = @ + 1]
    ELSE log

\* the sidebar: if uploaded_file is not None: handle_pdf_upload(uploaded_file)
Sidebar ==
    /\ pc = "sidebar"
    /\ \/ /\ uploaded_file = NoFile
          /\ last' = "no_upload"
          /\ UNCHANGED <<session_state, build_log>>
       \/ /\ uploaded_file # NoFile
          /\ \E ok \in BOOLEAN :
               /\ session_state' = handle_pdf_upload(app, session_state, uploaded_file, ok)
               /\ last' = IF ~BuildsIndex(app, session_state, uploaded_file)
                          THEN "upload_skipped"
                          ELSE IF ok THEN "upload_indexed" ELSE "upload_failed"
               /\ build_log' = IF ~BuildsIndex(app, session_state, uploaded_file)
                               THEN build_log
                               ELSE Logged(build_log, IF ok THEN "indexed" ELSE "failed")
    /\ pc' = AfterSidebar
    /\ UNCHANGED <<app, uploaded_file, prompt, attempt, waits, exc, retrieved,
                   escaped, web_vars, tool_vars>>

-----------------------------------------------------------------------------
(* The chat turn: the "if prompt:" block *)

\* an assignment in place of the append: the new message replaces the history
Append1_replaces(s, m) == [s EXCEPT !.messages = <<m>>]

Append1(s, m) == [s EXCEPT !.messages = Append(@, m)]

\* 1. st.session_state.messages.append({"role": "user", "content": prompt})
ChatAppendUser ==
    /\ pc = "chat"
    /\ session_state' = Append1(session_state, Message("user", prompt))
    /\ pc' = "build"
    /\ last' = "user_appended"
    /\ UNCHANGED <<app, uploaded_file, prompt, attempt, waits, exc, retrieved,
                   escaped, build_log,
                   web_vars, tool_vars>>

\* the try block that holds the kickoff follows
AfterBuild == "kickoff"

\* 2. if st.session_state.crew is None: crew = create_agents_and_tasks(pdf_tool).
\* The call is outside every try block: when constructing the tools, the LLM
\* client, the agents or the Crew raises, the exception leaves the script run.
BuildCrew ==
    /\ pc = "build"
    /\ \/ /\ session_state.crew # NoCrew
          /\ pc' = AfterBuild
          /\ last' = "crew_reused"
          /\ UNCHANGED <<session_state, escaped>>
       \/ /\ session_state.crew = NoCrew
          /\ session_state' =
                [session_state EXCEPT !.crew = create_agents_and_tasks(session_state.pdf_tool)]
          /\ pc' = AfterBuild
          /\ last' = "crew_built"
          /\ UNCHANGED escaped
       \/ /\ session_state.crew = NoCrew
          /\ escaped' = TRUE
          /\ pc' = "idle"
          /\ last' = "build_raised"
          /\ UNCHANGED session_state
    /\ UNCHANGED <<app, uploaded_file, prompt, attempt, waits, exc, retrieved, build_log,
                   web_vars, tool_vars>>

\* the retry loop of app_orig.py: for attempt in range(3)
KickoffAttempts(a) == IF a = "app" THEN 1 ELSE 3
\* if attempt == 2: raise
IsLastAttempt(a, n) == n = KickoffAttempts(a) - 1
\* wait_time = 5 * (attempt + 2)
wait_time_long(n) == 5 * (n + 2)

\* wait_time = 5 * (attempt + 1)
wait_time(n) == 5 * (n + 1)

\* whether the exception raised by kickoff is retried by the loop around it
Retried(a, e, n) ==
    /\ a = "app_orig"
    /\ e.cls = "RateLimitError"
    /\ ~IsLastAttempt(a, n)

\* 3. result = st.session_state.crew.kickoff(inputs=inputs).raw, once per attempt
Kickoff ==
    /\ pc = "kickoff"
    /\ \/ \E r \in Retrievals(session_state.crew), ans \in Answers :
            /\ retrieved' = r
            /\ session_state' = Append1(session_state, Message("assistant", ans))
            /\ pc' = "idle"
            /\ last' = "answered"
            /\ UNCHANGED exc
       \/ \E e \in Exceptions :
            /\ Retried(app, e, attempt)
            /\ exc' = e
            /\ pc' = "backoff"
            /\ last' = "kickoff_rate_limited"
            /\ UNCHANGED <<session_state, retrieved>>
       \/ \E e \in Exceptions :
            /\ ~Retried(app, e, attempt)
            /\ exc' = e
            /\ pc' = "except"
            /\ last' = "kickoff_raised"
            /\ UNCHANGED <<session_state, retrieved>>
    /\ UNCHANGED <<app, uploaded_file, prompt, attempt, waits, escaped, build_log,
                   web_vars, tool_vars>>

\* time.sleep(wait_time) and the next iteration of the loop
Backoff ==
    /\ pc = "backoff"
    /\ waits' = Append(waits, <<"backoff", wait_time(attempt)>>)
    /\ attempt' = attempt + 1
    /\ pc' = "kickoff"
    /\ last' = "backoff"
    /\ UNCHANGED <<app, session_state, uploaded_file, prompt, exc, retrieved,
                   escaped, build_log,
                   web_vars, tool_vars>>

\* which except clause of the turn handles exception e
\* app.py: one clause, except Exception, that looks for the rate-limit words
\* in str(e); app_orig.py: except RateLimitError, except AttributeError (which
\* resets the session on the 'index' message and re-raises otherwise), except
\* Exception.
ExceptClause(a, e) ==
    IF a = "app"
    THEN IF e.marker THEN "rate_limit" ELSE "generic"
    ELSE CASE e.cls = "RateLimitError" -> "rate_limit"
           [] e.cls = "AttributeError" /\ e.index_msg -> "attribute_reset"
           [] e.cls = "AttributeError" /\ ~e.index_msg -> "attribute_raise"
           [] OTHER -> "generic"

\* error_msg of the clause (the leading warning sign of app.py's texts is left out)
error_msg(a, clause) ==
    IF a = "app"
    THEN IF clause = "rate_limit"
         THEN "Our systems are currently experiencing high demand. Please try again in a few moments."
         ELSE "An unexpected error occurred. Please try again later."
    ELSE IF clause = "rate_limit"
         THEN "Our systems are currently at capacity. Please try again in a minute."
         ELSE "An unexpected error occurred. Please try again."

\* time.sleep(10)  # Cooldown period, after the rate-limit message of app_orig.py
CooldownSeconds == 10

AfterExcept(a, clause) ==
    IF a = "app_orig" /\ clause = "rate_limit" THEN "cooldown" ELSE "idle"

\* the except clauses of the turn
Except ==
    /\ pc = "except"
    /\ LET clause == ExceptClause(app, exc)
       IN  /\ \/ /\ clause \in {"rate_limit", "generic"}
                 /\ session_state' =
                       Append1(session_state, Message("assistant", error_msg(app, clause)))
                 /\ last' = "error_appended"
                 /\ UNCHANGED escaped
              \/ /\ clause = "attribute_reset"
                 /\ session_state' = reset_chat([session_state EXCEPT !.pdf_tool = NoTool])
                 /\ last' = "attribute_reset"
                 /\ UNCHANGED escaped
              \/ /\ clause = "attribute_raise"
                 /\ escaped' = TRUE
                 /\ last' = "reraised"
                 /\ UNCHANGED session_state
           /\ pc' = AfterExcept(app, clause)
    /\ UNCHANGED <<app, uploaded_file, prompt, attempt, waits, exc, retrieved, build_log,
                   web_vars, tool_vars>>

Cooldown ==
    /\ pc = "cooldown"
    /\ waits' = Append(waits, <<"cooldown", CooldownSeconds>>)
    /\ pc' = "idle"
    /\ last' = "cooldown"
    /\ UNCHANGED <<app, session_state, uploaded_file, prompt, attempt, exc,
                   retrieved, escaped, build_log,
                   web_vars, tool_vars>>

\* the steps of a running script
RunStep ==
    \/ Sidebar
    \/ ChatAppendUser
    \/ BuildCrew
    \/ Kickoff
    \/ Backoff
    \/ Except
    \/ Cooldown

Next ==
    \/ SelectFile
    \/ RemoveFile
    \/ ClickReset
    \/ SubmitPrompt
    \/ Sidebar
    \/ ChatAppendUser
    \/ BuildCrew
    \/ Kickoff
    \/ Backoff
    \/ Except
    \/ Cooldown

Spec == Init /\ [][Next]_vars

\* a started script run is executed to its end
FairSpec == Spec /\ WF_vars(RunStep)

-----------------------------------------------------------------------------
(* FireCrawlWebSearchTool._run *)

\* retries = 3
retries == 3
\* time.sleep(2)  # Pause briefly before retrying
PauseSeconds == 2

\* a result of the service: its "snippet" entry, or "absent" when it has none
Snippets == {"s1", "s2", "absent"}
RECURSIVE SeqsUpTo(_, _)
SeqsUpTo(S, n) ==
    IF n = 0 THEN {<<>>}
    ELSE LET shorter == SeqsUpTo(S, n - 1)
         IN  shorter \cup { Append(q, x) : q \in {r \in shorter : Len(r) = n - 1}, x \in S }
ResultLists == SeqsUpTo(Snippets, MaxResults)

\* what one HTTP attempt can do: answer 2xx with a JSON object holding results,
\* raise a requests.exceptions.RequestException (transport failure, or
\* raise_for_status on a non-2xx answer), or answer 2xx with a body that makes
\* the code raise another exception (not an object: data.get fails)
Outcomes ==
    [kind : {"success"}, results : ResultLists]
    \cup [kind : {"ConnectionError", "HTTPError", "bad_body"}, results : {<<>>}]
IsRequestException(o) == o.kind \in {"ConnectionError", "HTTPError"}

\* result.get("snippet", "No snippet available")
GetSnippet(x) == IF x = "absent" THEN "No snippet available" ELSE x

\* what _run returns: kind "results" with the lines joined by "\n", "no_results"
\* for "No results found.", "error" for the f"Error during FireCrawl web
\* search: {e}" string, "raised" when an exception leaves _run
WebRet(kind, lines) == [kind |-> kind, lines |-> lines]
NoRet == WebRet("none", <<>>)
\* the success branch without the test "if results"
OnSuccess_joins_always(results) ==
    [kind |-> "results", lines |-> [i \in 1..Len(results) |-> GetSnippet(results[i])]]

OnSuccess(results) ==
    IF results # <<>>
    THEN WebRet("results", [i \in 1..Len(results) |-> GetSnippet(results[i])])
    ELSE WebRet("no_results", <<>>)

RECURSIVE JoinText(_, _)
\* sep.join(lines)
JoinText(lines, sep) ==
    IF lines = <<>> THEN ""
    ELSE IF Len(lines) = 1 THEN lines[1]
    ELSE lines[1] \o sep \o JoinText(Tail(lines), sep)

\* str(e) of the RequestException of an attempt
ErrorText(kind) ==
    IF kind = "HTTPError" THEN "500 Server Error" ELSE "Connection refused"

\* the string _run returns
ReturnText(ret) ==
    CASE ret.kind = "results"    -> JoinText(ret.lines, "\n")
      [] ret.kind = "no_results" -> "No results found."
      [] ret.kind = "error"      -> "Error during FireCrawl web search: " \o ErrorText(ret.lines[1])
      [] OTHER                   -> "(no value)"

\* if attempt < retries
RetryAfterFailure_always(n) == n < retries

\* if attempt < retries - 1
RetryAfterFailure(n) == n < retries - 1

InitWeb ==
    /\ Init
    /\ app = "app"

\* one iteration of: for attempt in range(retries)
WebAttempt ==
    /\ web_pc = "start"
    /\ \E o \in Outcomes :
         /\ web_trace' = Append(web_trace, o)
         /\ IF o.kind = "success"
            THEN /\ web_ret' = OnSuccess(o.results)
                 /\ web_pc' = "done"
            ELSE IF IsRequestException(o)
            THEN IF RetryAfterFailure(web_attempt)
                 THEN /\ web_pc' = "sleep"
                      /\ UNCHANGED web_ret
                 ELSE /\ web_ret' = WebRet("error", <<o.kind>>)
                      /\ web_pc' = "done"
            ELSE /\ web_ret' = WebRet("raised", <<o.kind>>)
                 /\ web_pc' = "done"
    /\ UNCHANGED <<web_attempt, web_sleeps, session_vars, tool_vars>>

\* time.sleep(2); continue
WebSleep ==
    /\ web_pc = "sleep"
    /\ web_sleeps' = Append(web_sleeps, PauseSeconds)
    /\ web_attempt' = web_attempt + 1
    /\ web_pc' = "start"
    /\ UNCHANGED <<web_trace, web_ret, session_vars, tool_vars>>

\* the tool is called again
WebCall ==
    /\ web_pc = "done"
    /\ web_pc' = "start"
    /\ web_attempt' = 0
    /\ web_sleeps' = <<>>
    /\ web_trace' = <<>>
    /\ web_ret' = NoRet
    /\ UNCHANGED <<session_vars, tool_vars>>

NextWeb ==
    \/ WebAttempt
    \/ WebSleep
    \/ WebCall

SpecWeb == InitWeb /\ [][NextWeb]_vars

-----------------------------------------------------------------------------
(* Context construction of app_orig.py: context_str from pdf_tool.search.   *)
(* Texts are modelled by their lengths in characters; a retrieval result is *)
(* the sequence of the lengths of its snippets.                             *)

\* str(c)[:500]
SnippetCap == 500
\* [:2000]
ContextCap == 2000
\* len("\n"), the separator of "\n".join
NewlineLen == 1
\* len("\n___\n"), the separator DocumentSearchTool._run joins the chunks with
SeparatorLen == 5
\* len("Error retrieving context from document.")
ErrorTextLen == 39

\* most snippets in one retrieval result
MaxChunks == 5
ChunkLens == {0, 499, 500, 501, 2001}

Min(a, b) == IF a < b THEN a ELSE b
Max(a, b) == IF a > b THEN a ELSE b

RECURSIVE SumLen(_)
SumLen(lens) == IF lens = <<>> THEN 0 ELSE Head(lens) + SumLen(Tail(lens))

\* len(sep.join(pieces))
JoinLen(lens, sep) ==
    IF lens = <<>> THEN 0 ELSE SumLen(lens) + sep * (Len(lens) - 1)

\* how many characters of each piece are in sep.join(pieces)[:cap]
KeptOfJoin(lens, sep, cap) ==
    [i \in 1..Len(lens) |->
        LET start == JoinLen(SubSeq(lens, 1, i - 1), sep) + (IF i > 1 THEN sep ELSE 0)
        IN  Max(0, Min(lens[i], cap - start))]

Context(len, parts) == [done |-> TRUE, len |-> len, parts |-> parts]

\* "\n".join([str(c)[:500] for c in context])[:2000]
ContextOfList(chunks) ==
    LET cut == [i \in 1..Len(chunks) |-> Min(chunks[i], SnippetCap)]
    IN  Context(Min(JoinLen(cut, NewlineLen), ContextCap),
                KeptOfJoin(cut, NewlineLen, ContextCap))

\* str(context)[:2000], the result being the snippets joined with "\n___\n"
ContextOfStr(chunks) ==
    Context(Min(JoinLen(chunks, SeparatorLen), ContextCap),
            KeptOfJoin(chunks, SeparatorLen, ContextCap))

\* what the call pdf_tool.search(query=prompt, top_k=3) can hand to the lines
\* that follow it: a list of chunks, one string holding the chunks, or an
\* exception (the outcome with the DocumentSearchTool of custom_tool.py, see
\* DocSearch); "no_tool" when pdf_tool is None
SearchResults ==
    [kind : {"list", "str"}, chunks : SeqsUpTo(ChunkLens, MaxChunks)]
    \cup [kind : {"error", "no_tool"}, chunks : {<<>>}]

context_str(r) ==
    CASE r.kind = "no_tool" -> Context(0, <<>>)
      [] r.kind = "list"    -> ContextOfList(r.chunks)
      [] r.kind = "str"     -> ContextOfStr(r.chunks)
      [] r.kind = "error"   -> Context(ErrorTextLen, <<>>)

\* a turn of app_orig.py in which pdf_tool.search has given result r
InitContext ==
    /\ SessionInit
    /\ app = "app_orig"
    /\ WebInit
    /\ ctx_result \in SearchResults
    /\ ctx_out = NoContext
    /\ DocIdle
    /\ ConfigIdle

\* lines 417-432 of the turn of app_orig.py
BuildContext ==
    /\ ~ctx_out.done
    /\ ctx_out' = context_str(ctx_result)
    /\ UNCHANGED <<ctx_result, session_vars, web_vars, doc_vars, cfg_vars>>

NextContext == BuildContext

SpecContext == InitContext /\ [][NextContext]_vars

-----------------------------------------------------------------------------
(* DocumentSearchTool: construction and query.  A file path is the sequence  *)
(* of its components; a chunk is identified by the file it was cut from and  *)
(* its position in that file.                                                *)

\* most chunks one file is cut into
MaxDocChunks == 3

Paths == {<<"tmp1", "a.pdf">>, <<"tmp2", "a.pdf">>, <<"tmp1", "b.pdf">>}

\* os.path.basename
basename(path) == path[Len(path)]

\* docs, metadata and ids of _process_document for a file cut into n chunks
Points(path, n) ==
    {[id |-> i - 1,
      document |-> [file |-> path, pos |-> i],
      source |-> basename(path)] : i \in 1..n}

\* top_k of the call pdf_tool.search(query=prompt, top_k=3)
top_k == 3

\* a process in which DocumentSearchTool instances are constructed and queried
InitDoc ==
    /\ SessionInit
    /\ app = "app_orig"
    /\ WebInit
    /\ ContextIdle
    /\ DocIdle
    /\ ConfigIdle

\* DocumentSearchTool(file_path): instance t gets a QdrantClient(":memory:")
\* of its own, and the chunks of the file are added to "demo_collection" of
\* that client
DocConstruct(t, path, n) ==
    /\ doc_store[t].file_path = NoPath
    /\ doc_store' = [doc_store EXCEPT ![t] =
                        [file_path |-> path, points |-> Points(path, n)]]
    /\ UNCHANGED <<doc_query, session_vars, web_vars, ctx_vars, cfg_vars>>

\* _run(query): client.query on "demo_collection" of the instance's client,
\* with no limit passed; the client's own default limit is taken to be above
\* MaxDocChunks, so every point of the collection is returned
DocRun(t) ==
    /\ doc_store[t].file_path # NoPath
    /\ doc_query' = [op |-> "_run", tool |-> t, top_k |-> NoTopK,
                     status |-> "returned", chunks |-> doc_store[t].points]
    /\ UNCHANGED <<doc_store, session_vars, web_vars, ctx_vars, cfg_vars>>

\* pdf_tool.search(query=prompt, top_k=3): DocumentSearchTool defines no
\* attribute "search", so the call raises AttributeError
DocSearch(t) ==
    /\ doc_store[t].file_path # NoPath
    /\ doc_query' = [op |-> "search", tool |-> t, top_k |-> top_k,
                     status |-> "AttributeError", chunks |-> {}]
    /\ UNCHANGED <<doc_store, session_vars, web_vars, ctx_vars, cfg_vars>>

NextDoc ==
    \/ \E t \in Tools, path \in Paths, n \in 1..MaxDocChunks : DocConstruct(t, path, n)
    \/ \E t \in Tools : DocRun(t)
    \/ \E t \in Tools : DocSearch(t)

SpecDoc == InitDoc /\ [][NextDoc]_vars

-----------------------------------------------------------------------------
(* config/appconfig.py: validation of the environment at import.             *)

REQUIRED_VARS ==
    <<"GROQ_API_KEY", "FIRECRAWL_API_KEY", "MODEL",
      "QDRANT_API_KEY", "QDRANT_LOCATION", "SERPER_API_KEY">>

VarNames == {REQUIRED_VARS[i] : i \in 1..Len(REQUIRED_VARS)}

\* os.getenv gives None for a variable that is not set
Unset == "(unset)"
EnvValues == {Unset, "", "k1", "k2"}

\* `not value`
IsMissing(value) == value \in {Unset, ""}

RECURSIVE missing_vars_first(_, _)
\* a loop that stops at the first missing variable
missing_vars_first(names, env) ==
    IF names = <<>> THEN <<>>
    ELSE IF IsMissing(env[Head(names)]) THEN <<Head(names)>>
    ELSE missing_vars_first(Tail(names), env)

RECURSIVE missing_vars(_, _)
\* the loop over REQUIRED_VARS: missing_vars in the order of REQUIRED_VARS
missing_vars(names, env) ==
    IF names = <<>> THEN <<>>
    ELSE (IF IsMissing(env[Head(names)]) THEN <<Head(names)>> ELSE <<>>)
         \o missing_vars(Tail(names), env)

\* the module-level names the import leaves defined
config(env) == [v \in VarNames |-> env[v]]

\* importing config.appconfig
appconfig(exists, env) ==
    IF ~exists
    THEN [status |-> "FileNotFoundError", named |-> <<>>, exports |-> <<>>]
    ELSE IF missing_vars(REQUIRED_VARS, env) # <<>>
    THEN [status |-> "ValueError", named |-> missing_vars(REQUIRED_VARS, env),
          exports |-> <<>>]
    ELSE [status |-> "loaded", named |-> <<>>, exports |-> config(env)]

\* a process about to import config.appconfig, in any environment
InitConfig ==
    /\ SessionInit
    /\ app = "app"
    /\ WebInit
    /\ ContextIdle
    /\ DocIdle
    /\ cfg_file \in BOOLEAN
    /\ cfg_env \in [VarNames -> EnvValues]
    /\ cfg_out = NotLoaded

LoadConfig ==
    /\ cfg_out = NotLoaded
    /\ cfg_out' = appconfig(cfg_file, cfg_env)
    /\ UNCHANGED <<cfg_file, cfg_env, session_vars, web_vars, ctx_vars, doc_vars>>

NextConfig == LoadConfig

SpecConfig == InitConfig /\ [][NextConfig]_vars

-----------------------------------------------------------------------------
(* Properties *)

Messages == session_state.messages
LastMessage == Messages[Len(Messages)]

\* C1: FireCrawlWebSearchTool._run, when every attempt either succeeds or
\* raises a RequestException, makes at most 3 attempts, stops at the first
\* success and returns its result, sleeps 2 seconds exactly once after each
\* failed attempt that is not the third, and after 3 failures returns the error
\* string with no sleep after the third failure.
C1_WebRetry ==
    LET n == Len(web_trace)
        failed(i) == web_trace[i].kind \in {"ConnectionError", "HTTPError"}
    IN  (\A i \in 1..n : web_trace[i].kind # "bad_body") =>
          /\ n <= 3
          /\ \A i \in 1..(n - 1) : failed(i)
          /\ \A i \in 1..Len(web_sleeps) : web_sleeps[i] = 2
          /\ web_pc = "start" => Len(web_sleeps) = n
          /\ web_pc = "sleep" => failed(n) /\ n < 3 /\ Len(web_sleeps) = n - 1
          /\ web_pc = "done" =>
               /\ Len(web_sleeps) = n - 1
               /\ ~failed(n) =>
                    web_ret = IF web_trace[n].results = <<>>
                              THEN WebRet("no_results", <<>>)
                              ELSE WebRet("results",
                                     [i \in 1..Len(web_trace[n].results) |->
                                        GetSnippet(web_trace[n].results[i])])
               /\ failed(n) => n = 3 /\ web_ret.kind = "error"

\* fail, fail, success: the successful result with exactly two pauses
C1_Witness ==
    /\ web_pc = "done"
    /\ Len(web_trace) = 3
    /\ web_trace[1].kind = "ConnectionError"
    /\ web_trace[2].kind = "HTTPError"
    /\ web_trace[3].kind = "success"
    /\ web_ret = WebRet("results", <<"s1", "No snippet available">>)
    /\ web_sleeps = <<2, 2>>

RECURSIVE Alternates(_)
\* user, assistant, user, assistant, ...
Alternates(m) ==
    \/ m = <<>>
    \/ /\ Len(m) >= 2
       /\ m[1].role = "user"
       /\ m[2].role = "assistant"
       /\ Alternates(SubSeq(m, 3, Len(m)))

\* C2: after every script run no exception has escaped and the history
\* alternates user, assistant and has even length.
C2_HistoryConsistent ==
    pc = "idle" => ~escaped /\ Alternates(Messages)

Cleared(s) ==
    /\ s.messages = <<>>
    /\ s.pdf_tool = NoTool
    /\ s.pdf_processed = FALSE

\* C3: the step of reset_chat leaves the session with no messages, no bound
\* document and indexing status false, whatever the state before it.
C3_ResetClearsAll ==
    last \in {"reset_chat", "attribute_reset"} => Cleared(session_state)

\* reset pressed after a document was indexed, the file still selected
C3_Witness ==
    /\ last = "reset_chat"
    /\ session_state.current_pdf = "b.pdf"
    /\ uploaded_file.name = "b.pdf"
    /\ Cleared(session_state)

\* C4: every kickoff runs a Crew created with the current pdf_tool (the index
\* of the active document, or no document tool when none is bound).
C4_QueryUsesActiveIndex ==
    pc = "kickoff" =>
        /\ session_state.crew.built
        /\ session_state.crew.tool = session_state.pdf_tool

EmptyContext(r) ==
    /\ r.doc = "unbound"
    /\ r.web \in {NoResults, WebError}

\* C5: a turn whose retrieval found nothing (no document tool, web search
\* empty or failed) appends exactly the fallback sentence.
C5_EmptyContextFallback ==
    (last = "answered" /\ EmptyContext(retrieved)) =>
        LastMessage = Message("assistant", Fallback)

\* the turn of this run failed and its exception has been dealt with
FailedTurnOver == exc # NoExc /\ pc \in {"idle", "cooldown"}

\* C6: the message appended by a failed turn is the rate-limit text when the
\* failure is a RateLimitError and the generic text for every other failure.
C6_ErrorTextByClass ==
    FailedTurnOver =>
        /\ Messages # <<>>
        /\ LastMessage =
             Message("assistant",
                     error_msg(app, IF exc.cls = "RateLimitError"
                                    THEN "rate_limit" ELSE "generic"))

Backoffs == SelectSeq(waits, LAMBDA w : w[1] = "backoff")

\* C7: within a turn kickoff is attempted at most 3 times, re-attempted only
\* after a RateLimitError and after a backoff pause; the pauses are
\* non-decreasing and lie between 4 and 10 seconds; any other error, and a
\* RateLimitError on the last attempt, reach the except clauses with no
\* further attempt and no further pause.
C7_KickoffRetry ==
    /\ attempt + 1 <= 3
    /\ Len(Backoffs) = attempt
    /\ \A i \in 1..Len(Backoffs) : Backoffs[i][2] >= 4 /\ Backoffs[i][2] <= 10
    /\ \A i \in 1..(Len(Backoffs) - 1) : Backoffs[i][2] <= Backoffs[i + 1][2]
    /\ (pc = "backoff" \/ (attempt > 0 /\ pc = "kickoff")) => exc.cls = "RateLimitError"
    /\ pc = "except" =>
         /\ waits = Backoffs
         /\ last = "kickoff_raised"
         /\ (app = "app_orig" /\ exc.cls = "RateLimitError") => attempt = 2

\* three rate-limited attempts: pauses of 5 and 10 seconds, then the handler
C7_Witness ==
    /\ pc = "except"
    /\ exc.cls = "RateLimitError"
    /\ attempt = 2
    /\ waits = << <<"backoff", 5>>, <<"backoff", 10>> >>

\* C8: every script run that was started, a turn included, ends: the session
\* is idle again and accepts the next event.
C8_TurnTerminates == (pc # "idle") ~> (pc = "idle")

\* a turn that used every retry and the cooldown has ended
C8_Witness ==
    /\ pc = "idle"
    /\ last = "cooldown"
    /\ Len(waits) = 3

\* C9 as stated: with no document bound no Crew is built or kicked off.
C9_RejectedWithoutDocument ==
    session_state.pdf_tool = NoTool =>
        /\ pc \notin {"kickoff", "backoff"}
        /\ last # "crew_built"

\* C9 as amended: a query with no document bound is accepted like any other;
\* its user message is in the history and the Crew that is kicked off was
\* created without a document tool.
C9_AcceptedWithoutDocument ==
    (session_state.pdf_tool = NoTool /\ pc \in {"build", "kickoff", "backoff"}) =>
        /\ LastMessage = Message("user", prompt)
        /\ pc \in {"kickoff", "backoff"} =>
             session_state.crew = create_agents_and_tasks(NoTool)

\* a kickoff with no document bound and no file selected
C9_Witness ==
    /\ pc = "kickoff"
    /\ session_state.pdf_tool = NoTool
    /\ uploaded_file = NoFile
    /\ session_state.crew.built

\* C10: after an upload whose indexing raised, no document is bound and the
\* indexing status is false.
C10_FailedUploadUnbinds ==
    last = "upload_failed" =>
        /\ session_state.pdf_tool = NoTool
        /\ session_state.pdf_processed = FALSE

\* C11: once the first index build for the selected file has failed, no
\* further build is made for it until the user selects a file again.
C11_FailedBuildNotRetried ==
    build_log.first = "failed" => build_log.n = 1

C13_NoResultsFound ==
    LET n == Len(web_trace)
    IN  /\ (web_pc = "done" /\ web_trace[n].kind = "success") =>
              /\ Len(web_sleeps) = n - 1
              /\ web_trace[n].results = <<>> => ReturnText(web_ret) = "No results found."
              /\ web_trace[n].results # <<>> =>
                   /\ Len(web_ret.lines) = Len(web_trace[n].results)
                   /\ \A i \in 1..Len(web_ret.lines) :
                        web_ret.lines[i] = GetSnippet(web_trace[n].results[i])
                   /\ ReturnText(web_ret) = JoinText(web_ret.lines, "\n")
        /\ (web_pc = "done" /\ IsRequestException(web_trace[n])) =>
              ReturnText(web_ret) \notin {"No results found.", "(no value)"}
        /\ (n > 0 /\ web_trace[n].kind = "success") => web_pc = "done"

\* the third attempt is answered with an empty result list
C13_Witness ==
    /\ web_pc = "done"
    /\ Len(web_trace) = 3
    /\ web_trace[3] = [kind |-> "success", results |-> <<>>]
    /\ ReturnText(web_ret) = "No results found."
    /\ web_sleeps = <<2, 2>>

\* C14: FireCrawlWebSearchTool._run always ends by returning a string: it
\* never raises and never returns None, whatever the service does.
C14_AlwaysReturnsString ==
    web_pc = "done" => web_ret.kind \in {"results", "no_results", "error"}

\* C15: a document query with top_k = k returns, and returns at most k
\* chunks; every returned chunk is a chunk of the file the queried tool was
\* constructed with, its source metadata being that file's basename, so that
\* no instance sees the chunks of another.
C15_QueryBoundedAndOwn ==
    doc_query.op # "none" =>
        LET tool == doc_store[doc_query.tool]
        IN  /\ doc_query.status = "returned"
            /\ doc_query.top_k # NoTopK =>
                   Cardinality(doc_query.chunks) <= doc_query.top_k
            /\ \A c \in doc_query.chunks :
                   /\ c.document.file = tool.file_path
                   /\ c.source = basename(tool.file_path)

MissingSet == {v \in VarNames : IsMissing(cfg_env[v])}
Named == {cfg_out.named[i] : i \in 1..Len(cfg_out.named)}

\* C16 as stated: if the .env file is absent or any required variable is
\* unset or empty, loading raises an error that names every missing variable
\* and exports nothing; otherwise all six are exported with their environment
\* values.
C16_ErrorNamesEveryMissing ==
    cfg_out # NotLoaded =>
        IF ~cfg_file \/ MissingSet # {}
        THEN /\ cfg_out.status \in {"FileNotFoundError", "ValueError"}
             /\ Named = MissingSet
             /\ cfg_out.exports = <<>>
        ELSE /\ cfg_out.status = "loaded"
             /\ \A v \in VarNames : cfg_out.exports[v] = cfg_env[v]

\* C16 amended: an absent .env file raises FileNotFoundError, which names no
\* variable, whatever the environment holds; with the file present, any unset
\* or empty required variable raises ValueError naming every missing variable
\* once, in the order of REQUIRED_VARS; both export nothing; otherwise all six
\* are exported with their environment values.
C16_FileThenVariables ==
    cfg_out # NotLoaded =>
        /\ ~cfg_file =>
              /\ cfg_out.status = "FileNotFoundError"
              /\ cfg_out.named = <<>>
              /\ cfg_out.exports = <<>>
        /\ (cfg_file /\ MissingSet # {}) =>
              /\ cfg_out.status = "ValueError"
              /\ Named = MissingSet
              /\ Len(cfg_out.named) = Cardinality(MissingSet)
              /\ cfg_out.exports = <<>>
        /\ (cfg_file /\ MissingSet = {}) =>
              /\ cfg_out.status = "loaded"
              /\ DOMAIN cfg_out.exports = VarNames
              /\ \A v \in VarNames :
                    cfg_out.exports[v] = cfg_env[v] /\ ~IsMissing(cfg_out.exports[v])

\* one variable unset and a later one empty: the error names both
C16_Witness ==
    /\ cfg_out.status = "ValueError"
    /\ cfg_env["FIRECRAWL_API_KEY"] = Unset
    /\ cfg_env["SERPER_API_KEY"] = ""
    /\ cfg_out.named = <<"FIRECRAWL_API_KEY", "SERPER_API_KEY">>

\* the history after the step is the history before it with one message added
\* at the end
Appended ==
    /\ Len(Messages') = Len(Messages) + 1
    /\ SubSeq(Messages', 1, Len(Messages)) = Messages

\* C17 as stated: the history is append-only; existing messages are never
\* modified, reordered or removed one by one, and the history shrinks only by
\* being emptied by the explicit reset operation, never by an upload or a
\* query outcome.
C17_ShrinksOnlyOnReset ==
    [][ \/ Messages' = Messages
        \/ Appended
        \/ Messages' = <<>> /\ last' = "reset_chat" ]_vars

\* C17 amended: every step leaves the history as it is, adds one message at
\* its end, or empties it through reset_chat; reset_chat runs on the reset
\* button, in app.py's handle_pdf_upload for a file whose name differs from
\* current_pdf, and in app_orig.py's handler of the AttributeError that
\* mentions 'index'.
C17_AppendOrEmptied ==
    [][ \/ Messages' = Messages
        \/ Appended
        \/ /\ Messages' = <<>>
           /\ \/ last' = "reset_chat"
              \/ /\ app = "app"
                 /\ pc = "sidebar"
                 /\ uploaded_file # NoFile
                 /\ uploaded_file.name # session_state.current_pdf
                 /\ last' \in {"upload_indexed", "upload_failed"}
              \/ /\ app = "app_orig"
                 /\ last' = "attribute_reset" ]_vars

\* the AttributeError handler of app_orig.py has run reset_chat in a turn whose
\* user message had been appended: the history is empty again
C17_Witness ==
    /\ app = "app_orig"
    /\ last = "attribute_reset"
    /\ pc = "idle"
    /\ prompt # NoPrompt
    /\ Messages = <<>>

\* C18: after every upload that ends without an error, the active document
\* index is the one built from the bytes of the uploaded file; a file with the
\* name of the indexed document and another content replaces the old index.
C18_IndexOfUploadedBytes ==
    last \in {"upload_indexed", "upload_skipped"} =>
        session_state.pdf_tool = DocumentSearchTool(uploaded_file)

\* handle_pdf_upload is called with the name of the document already indexed
AlreadyIndexed ==
    /\ uploaded_file # NoFile
    /\ session_state.current_pdf = uploaded_file.name
    /\ session_state.pdf_processed
    /\ session_state.pdf_tool # NoTool

C20_StatusMatchesBinding ==
    pc = "idle" =>
        /\ session_state.pdf_processed <=> session_state.pdf_tool # NoTool
        /\ session_state.pdf_processed =>
               session_state.current_pdf = session_state.pdf_tool.name

====
